---- MODULE Spec2Model ----
(***************************************************************************)
(* Model of model_training.py: the KFoldValidator class (validate,         *)
(* slicing, predict_avg, calculate_final_score) and generate_submission.   *)
(*                                                                         *)
(* Python floats and numpy float64 are IEEE-754 binary64.  They are        *)
(* modelled bit-exactly: a finite nonzero value is sgn * M * 2^exp with M  *)
(* a 53-bit significand kept as a sequence of limbs (most significant      *)
(* first), and every operation rounds to nearest, ties to even.  Exponent  *)
(* range (overflow, subnormals), infinities and NaN are outside the model. *)
(***************************************************************************)
EXTENDS Integers, Sequences, FiniteSets, TLC

\* ------------------------------------------------------------------------
\* binary64 arithmetic
\* ------------------------------------------------------------------------

\* significand width of binary64 (float / numpy.float64)
MantBits == 53

\* Natural numbers too large for one machine word are sequences of limbs,
\* most significant first, without leading zero limbs.
Base == 2^12

Zeros(n) == [i \in 1..n |-> 0]

RECURSIVE StripZeros(_)
StripZeros(a) ==
    IF a = <<>> THEN <<>>
    ELSE IF a[1] = 0 THEN StripZeros(Tail(a)) ELSE a

RECURSIVE NatLimbs(_)
NatLimbs(k) == IF k = 0 THEN <<>> ELSE Append(NatLimbs(k \div Base), k % Base)

RECURSIVE BitLen(_)
\* number of binary digits of a natural number
BitLen(k) == IF k = 0 THEN 0 ELSE 1 + BitLen(k \div 2)

BigBitLen(a) == IF a = <<>> THEN 0 ELSE (Len(a) - 1) * BitLen(Base - 1) + BitLen(a[1])

PadTo(a, n) == Zeros(n - Len(a)) \o a

MaxOf(m, n) == IF m > n THEN m ELSE n

RECURSIVE AddFrom(_, _, _, _)
AddFrom(a, b, i, carry) ==
    IF i = 0 THEN (IF carry = 0 THEN <<>> ELSE <<carry>>)
    ELSE LET t == a[i] + b[i] + carry
         IN  Append(AddFrom(a, b, i - 1, t \div Base), t % Base)

BigAdd(a, b) ==
    LET n == MaxOf(Len(a), Len(b))
    IN  AddFrom(PadTo(a, n), PadTo(b, n), n, 0)

RECURSIVE SubFrom(_, _, _, _)
SubFrom(a, b, i, borrow) ==
    IF i = 0 THEN <<>>
    ELSE LET t == a[i] - b[i] - borrow
         IN  IF t < 0 THEN Append(SubFrom(a, b, i - 1, 1), t + Base)
                      ELSE Append(SubFrom(a, b, i - 1, 0), t)

\* a - b for a >= b
BigSub(a, b) ==
    LET n == MaxOf(Len(a), Len(b))
    IN  StripZeros(SubFrom(PadTo(a, n), PadTo(b, n), n, 0))

RECURSIVE LessFrom(_, _, _)
LessFrom(a, b, i) ==
    IF i > Len(a) THEN FALSE
    ELSE IF a[i] # b[i] THEN a[i] < b[i]
    ELSE LessFrom(a, b, i + 1)

BigLess(a, b) ==
    LET n == MaxOf(Len(a), Len(b))
    IN  LessFrom(PadTo(a, n), PadTo(b, n), 1)

RECURSIVE MulFrom(_, _, _, _)
MulFrom(a, w, i, carry) ==
    IF i = 0 THEN NatLimbs(carry)
    ELSE LET t == a[i] * w + carry
         IN  Append(MulFrom(a, w, i - 1, t \div Base), t % Base)

\* a * w for a one-word w
BigMulSmall(a, w) == StripZeros(MulFrom(a, w, Len(a), 0))

RECURSIVE DivFrom(_, _, _, _)
DivFrom(a, d, i, r) ==
    IF i > Len(a) THEN [q |-> <<>>, r |-> r]
    ELSE LET t    == r * Base + a[i]
             rest == DivFrom(a, d, i + 1, t % d)
         IN  [q |-> <<t \div d>> \o rest.q, r |-> rest.r]

\* quotient and remainder of a by a one-word d > 0
BigDivSmall(a, d) ==
    LET qr == DivFrom(a, d, 1, 0)
    IN  [q |-> StripZeros(qr.q), r |-> qr.r]

\* a * 2^k
ShiftLeft(a, k) ==
    LET w == BitLen(Base - 1)
    IN  IF a = <<>> THEN <<>>
        ELSE BigMulSmall(a, 2^(k % w)) \o Zeros(k \div w)

\* floor(a / 2^k), and whether a nonzero bit was shifted out
ShiftRight(a, k) ==
    LET w    == BitLen(Base - 1)
        drop == k \div w
        keep == IF drop >= Len(a) THEN <<>> ELSE SubSeq(a, 1, Len(a) - drop)
        lost == \E i \in 1..Len(a) : i > Len(a) - drop /\ a[i] # 0
        qr   == BigDivSmall(keep, 2^(k % w))
    IN  [q |-> qr.q, s |-> lost \/ qr.r # 0]

LowBit(a) == IF a = <<>> THEN 0 ELSE a[Len(a)] % 2

FZero == [sgn |-> 1, man |-> <<>>, exp |-> 0]

\* sgn * m * 2^exp for an m of at most MantBits + 1 bits whose low bits are
\* zero when it has MantBits + 1
Renormalize(sgn, m, exp) ==
    IF BigBitLen(m) > MantBits
    THEN [sgn |-> sgn, man |-> ShiftRight(m, 1).q, exp |-> exp + 1]
    ELSE [sgn |-> sgn, man |-> m, exp |-> exp]

\* head has MantBits bits; guard is the first bit cut off, sticky tells
\* whether a later one was set: round half to even
RoundHead(sgn, head, guard, sticky, exp) ==
    Renormalize(sgn,
                IF guard = 1 /\ (sticky \/ LowBit(head) = 1)
                THEN BigAdd(head, <<1>>) ELSE head,
                exp)

\* h.q has MantBits + 1 bits, the last of them the guard bit
RoundGuarded(sgn, h, exp) == RoundHead(sgn, ShiftRight(h.q, 1).q, LowBit(h.q), h.s, exp)

\* Round for an n of L bits
RoundLen(sgn, n, exp, L) ==
    IF L = 0 THEN FZero
    ELSE IF L <= MantBits
    THEN [sgn |-> sgn, man |-> ShiftLeft(n, MantBits - L), exp |-> exp - (MantBits - L)]
    ELSE RoundGuarded(sgn, ShiftRight(n, L - MantBits - 1), exp + (L - MantBits))

\* sgn * n * 2^exp rounded to the nearest binary64, ties to even
Round(sgn, n, exp) == RoundLen(sgn, n, exp, BigBitLen(n))

\* float(k) for an int k
FromInt(k) == IF k < 0 THEN Round(-1, NatLimbs(-k), 0) ELSE Round(1, NatLimbs(k), 0)

\* sx * xb * 2^e + sy * yb * 2^e
FAddAligned(sx, xb, sy, yb, e) ==
    Round(IF sx # sy /\ BigLess(xb, yb) THEN sy ELSE sx,
          IF sx = sy THEN BigAdd(xb, yb)
          ELSE IF BigLess(xb, yb) THEN BigSub(yb, xb) ELSE BigSub(xb, yb),
          e)

\* x + y for nonzero x and y, e the smaller of their exponents
FAddAt(x, y, e) ==
    FAddAligned(x.sgn, ShiftLeft(x.man, x.exp - e), y.sgn, ShiftLeft(y.man, y.exp - e), e)

\* x + y
FAdd(x, y) ==
    IF x.man = <<>> THEN y
    ELSE IF y.man = <<>> THEN x
    ELSE FAddAt(x, y, IF x.exp < y.exp THEN x.exp ELSE y.exp)

\* x * w for a natural number w that converts to float exactly
FMulInt(x, w) == Round(x.sgn, BigMulSmall(x.man, w), x.exp)

\* x / d for a positive integer d that converts to float exactly
FDivQuot(sgn, qr, exp) ==
    Round(sgn, BigAdd(ShiftLeft(qr.q, 1), IF qr.r = 0 THEN <<>> ELSE <<1>>), exp)

FDivInt(x, d) ==
    IF x.man = <<>> THEN FZero
    ELSE FDivQuot(x.sgn, BigDivSmall(ShiftLeft(x.man, BitLen(d) + 2), d),
                  x.exp - (BitLen(d) + 2) - 1)

\* the Python expression a / b on two ints, b > 0
FromRatio(a, b) == FDivInt(FromInt(a), b)

\* the neighbouring binary64 values of a nonzero x
NextAway(x) == Round(x.sgn, BigAdd(x.man, <<1>>), x.exp)

NextToZero(x) ==
    IF BigBitLen(BigSub(x.man, <<1>>)) < MantBits
    THEN Round(x.sgn, BigSub(ShiftLeft(x.man, 1), <<1>>), x.exp - 1)
    ELSE Round(x.sgn, BigSub(x.man, <<1>>), x.exp)

RECURSIVE Near(_, _)
\* the values at most k representable steps from x
Near(x, k) ==
    IF k = 0 \/ x.man = <<>> THEN {x}
    ELSE LET N == Near(x, k - 1)
         IN  N \cup {NextAway(v) : v \in N} \cup {NextToZero(v) : v \in N}

\* x is an integer
IsIntegral(x) ==
    \/ x.man = <<>>
    \/ x.exp >= 0
    \/ ~ShiftRight(x.man, -x.exp).s

\* ------------------------------------------------------------------------
\* state
\* ------------------------------------------------------------------------

VARIABLES
    n_splits,   \* self.n_splits (and the fold count of self.kf)
    seed,       \* self.seed (and the random_state of self.kf)
    models,     \* self.models: the fitted models retained by the validator
    rng,        \* the process-wide random state (random, numpy.random, PYTHONHASHSEED)
    nrows,      \* number of rows of the dataset handed to validate
    shuffled,   \* the order numpy's generator seeded with s shuffles 0..nrows-1 into
    kind,       \* the model class handed to the validator: "const" or "fit"
    cval,       \* the value a "const" model predicts for every row
    completed,  \* validate calls on this validator that returned
    aborted,    \* validate calls on this validator that raised
    ncalls,     \* validate calls made by the caller so far, on any validator
    hist,       \* what each returned validate call was given and produced, in call order
    last,       \* the most recent call on the validator: self.models before it, what it produced
    fs_in,      \* calculate_final_score: (scores_w1, scores_w5, scores_w10)
    fs_out,     \* calculate_final_score: <<>> before the call, <<final_score>> after
    sl_in,      \* slicing: its arguments data, indices, reset_index
    sl_out,     \* slicing: <<>> before the call, <<sliced data>> after
    gs_in,      \* generate_submission: the two files read, the masks, the predictions
    gs_out      \* generate_submission: <<>> before the call, <<what it built>> after

kfvars == <<n_splits, seed, models, rng, nrows, shuffled, kind, cval,
            completed, aborted, ncalls, hist, last>>

fsvars == <<fs_in, fs_out>>

slvars == <<sl_in, sl_out>>

gsvars == <<gs_in, gs_out>>

vars == <<kfvars, fsvars, slvars, gsvars>>

NoCall == <<>>

NoFinalScore == fs_in = NoCall /\ fs_out = NoCall

NoSlicing == sl_in = NoCall /\ sl_out = NoCall

NoSubmission == gs_in = NoCall /\ gs_out = NoCall

\* ------------------------------------------------------------------------
\* KFoldValidator.slicing
\* ------------------------------------------------------------------------

\* A DataFrame or Series is [table |-> TRUE, index |-> row labels, values |-> rows];
\* any other array is [table |-> FALSE, index |-> <<>>, values |-> rows].
Table(index, values) == [table |-> TRUE, index |-> index, values |-> values]

Array(values) == [table |-> FALSE, index |-> <<>>, values |-> values]

\* the position an integer index selects in a collection of n rows
Pos(i, n) == IF i < 0 THEN i + n ELSE i

\* integer-array indexing: the rows at the given positions, in the given order
Take(rows, indices) == [k \in 1..Len(indices) |-> rows[Pos(indices[k], Len(rows)) + 1]]

RangeIndex(n) == [k \in 1..n |-> k - 1]

\* mutant: the row labels are always renumbered
slicing_always_resets(data, indices, reset_index) ==
    IF data.table
    THEN Table(RangeIndex(Len(indices)), Take(data.values, indices))
    ELSE Array(Take(data.values, indices))

slicing(data, indices, reset_index) ==
    IF data.table
    THEN LET sliced_data == Table(Take(data.index, indices), Take(data.values, indices))
         IN  IF reset_index
             THEN Table(RangeIndex(Len(indices)), sliced_data.values)
             ELSE sliced_data
    ELSE Array(Take(data.values, indices))

\* ------------------------------------------------------------------------
\* KFoldValidator: construction, validate, predict_avg
\* ------------------------------------------------------------------------

\* rows of the dataset: 2..MaxRows
MaxRows == 3
\* fold counts the caller asks for: 2..MaxSplits
MaxSplits == 3
\* validate calls in one run
MaxCalls == 2
\* rows of the X_test handed to predict_avg: 1..MaxTestRows
MaxTestRows == 2
\* "const" models predict k/10 for 1 <= k <= MaxConst
MaxConst == 3

\* the default seed of KFoldValidator
DefaultSeed == 7

Seeds == {DefaultSeed, DefaultSeed + 1}

Perms(n) == {p \in [1..n -> 0..(n - 1)] : \A i, j \in 1..n : p[i] = p[j] => i = j}

Reverse(s) == [i \in 1..Len(s) |-> s[Len(s) + 1 - i]]

RECURSIVE SortedSeq(_)
\* the members of a set of integers in ascending order
SortedSeq(S) ==
    IF S = {} THEN <<>>
    ELSE LET m == CHOOSE x \in S : \A z \in S : x <= z
         IN  <<m>> \o SortedSeq(S \ {m})

Range(s) == {s[i] : i \in 1..Len(s)}

\* sklearn's KFold(n_splits = k, shuffle = True).split on n_samples rows whose
\* generator shuffles 0..n_samples-1 into perm: the first n_samples % k folds
\* take n_samples \div k + 1 consecutive entries of perm, the others
\* n_samples \div k; both index arrays are ascending.
KFoldSplit(n_samples, k, perm) ==
    LET small    == n_samples \div k
        extra    == n_samples % k
        Start(f) == (f - 1) * small + (IF f - 1 < extra THEN f - 1 ELSE extra)
        Size(f)  == small + (IF f <= extra THEN 1 ELSE 0)
        Test(f)  == {perm[i] : i \in (Start(f) + 1)..(Start(f) + Size(f))}
    IN  [f \in 1..k |-> [train |-> SortedSeq((0..(n_samples - 1)) \ Test(f)),
                         test  |-> SortedSeq(Test(f))]]

\* the dataset: X an array of row numbers, y a Series of labels
XData == Array(RangeIndex(nrows))

YData == Table(RangeIndex(nrows), [i \in 1..nrows |-> (i - 1) % 2])

\* mutant: the seeds are not reset
_seed_everything_skipped(s) == rng

_seed_everything(s) == [seed |-> s, pos |-> 0]

\* the next number the process-wide generator hands out
Draw(g) == g.seed + g.pos

FNeg(x) == IF x.man = <<>> THEN x ELSE [x EXCEPT !.sgn = -1 * x.sgn]

FAbs(x) == [x EXCEPT !.sgn = 1]

RECURSIVE FSum(_)
\* left-to-right sum, as numpy accumulates fewer than eight values
FSum(s) == IF s = <<>> THEN FZero ELSE FAdd(FSum(SubSeq(s, 1, Len(s) - 1)), s[Len(s)])

\* numpy.mean of a non-empty list
Mean(s) == FDivInt(FSum(s), Len(s))

\* model.fit: a "const" model ignores its training data; a "fit" model learns
\* one value from the training labels and a draw from the process-wide generator
Fit(X_train, y_train, g) ==
    [train |-> X_train.values,
     out   |-> IF kind = "const" THEN cval
               ELSE FromInt(Cardinality({i \in 1..Len(y_train.values) :
                                           y_train.values[i] = 1}) + Draw(g))]

\* model.predict: the fitted value for every row
Predict(m, rows) == [j \in 1..rows |-> m.out]

\* score_type[0]: sum of absolute errors
Score0(y_test, y_pred) ==
    FSum([j \in 1..Len(y_pred) |-> FAbs(FAdd(FromInt(y_test.values[j]), FNeg(y_pred[j])))])

\* score_type[1]: number of exact predictions
Score1(y_test, y_pred) ==
    FromInt(Cardinality({j \in 1..Len(y_pred) : FromInt(y_test.values[j]) = y_pred[j]}))

NoFailure == <<0, "none">>

Stages == {"model", "fit", "predict", "score0", "score1"}

\* mutant: the fold's scores replace the collected ones
FoldBody_overwrites_scores(st, fold, f, failAt) ==
    LET X_train == slicing(XData, fold.train, FALSE)
        X_test  == slicing(XData, fold.test, FALSE)
        y_train == slicing(YData, fold.train, FALSE)
        y_test  == slicing(YData, fold.test, FALSE)
        model   == Fit(X_train, y_train, st.rng)
        fitted  == [st EXCEPT !.models = Append(@, model),
                              !.rng = [@ EXCEPT !.pos = @ + 1]]
        y_pred  == Predict(model, Len(X_test.values))
        score   == Score0(y_test, y_pred)
        score1  == Score1(y_test, y_pred)
    IN  IF failAt \in {<<f, "model">>, <<f, "fit">>}
        THEN [st EXCEPT !.raised = TRUE]
        ELSE IF failAt \in {<<f, "predict">>, <<f, "score0">>, <<f, "score1">>}
        THEN [fitted EXCEPT !.raised = TRUE]
        ELSE [fitted EXCEPT !.fold_scores = <<<<score, score1>>>>]

\* mutant: the model is retained only once its fold has been scored
FoldBody_appends_after_scoring(st, fold, f, failAt) ==
    LET X_train == slicing(XData, fold.train, FALSE)
        X_test  == slicing(XData, fold.test, FALSE)
        y_train == slicing(YData, fold.train, FALSE)
        y_test  == slicing(YData, fold.test, FALSE)
        model   == Fit(X_train, y_train, st.rng)
        fitted  == [st EXCEPT !.rng = [@ EXCEPT !.pos = @ + 1]]
        y_pred  == Predict(model, Len(X_test.values))
        score   == Score0(y_test, y_pred)
        score1  == Score1(y_test, y_pred)
    IN  IF failAt \in {<<f, "model">>, <<f, "fit">>}
        THEN [st EXCEPT !.raised = TRUE]
        ELSE IF failAt \in {<<f, "predict">>, <<f, "score0">>, <<f, "score1">>}
        THEN [fitted EXCEPT !.raised = TRUE]
        ELSE [fitted EXCEPT !.fold_scores = Append(@, <<score, score1>>),
                            !.models = Append(@, model)]

\* one pass of the loop body of validate on fold number f; failAt names the
\* fold and the call in it that raises, if any
FoldBody(st, fold, f, failAt) ==
    LET X_train == slicing(XData, fold.train, FALSE)
        X_test  == slicing(XData, fold.test, FALSE)
        y_train == slicing(YData, fold.train, FALSE)
        y_test  == slicing(YData, fold.test, FALSE)
        model   == Fit(X_train, y_train, st.rng)
        fitted  == [st EXCEPT !.models = Append(@, model),
                              !.rng = [@ EXCEPT !.pos = @ + 1]]
        y_pred  == Predict(model, Len(X_test.values))
        score   == Score0(y_test, y_pred)
        score1  == Score1(y_test, y_pred)
    IN  IF failAt \in {<<f, "model">>, <<f, "fit">>}
        THEN [st EXCEPT !.raised = TRUE]
        ELSE IF failAt \in {<<f, "predict">>, <<f, "score0">>, <<f, "score1">>}
        THEN [fitted EXCEPT !.raised = TRUE]
        ELSE [fitted EXCEPT !.fold_scores = Append(@, <<score, score1>>)]

RECURSIVE FoldLoop(_, _, _, _)
FoldLoop(st, folds, f, failAt) ==
    IF f > Len(folds) \/ st.raised THEN st
    ELSE FoldLoop(FoldBody(st, folds[f], f, failAt), folds, f + 1, failAt)

\* the folds self.kf.split yields: none, with an error, when there are fewer
\* rows than folds
Folds == IF n_splits > nrows THEN <<>> ELSE KFoldSplit(nrows, n_splits, shuffled[seed])

\* validate(X, y): the state it leaves and what it hands back
\* [score[c] for score in fold_scores]
ScoreColumn(fold_scores, c) == [i \in 1..Len(fold_scores) |-> fold_scores[i][c]]

\* the end of validate, st the state the loop has left
MeanScores(st) ==
    [models |-> st.models, rng |-> st.rng, raised |-> st.raised,
     folds |-> Folds, fold_scores |-> st.fold_scores,
     means |-> IF st.raised THEN <<>>
               ELSE <<Mean(ScoreColumn(st.fold_scores, 1)),
                      Mean(ScoreColumn(st.fold_scores, 2))>>]

validate(failAt) ==
    MeanScores(FoldLoop([models |-> models, rng |-> _seed_everything(seed),
                         fold_scores |-> <<>>, raised |-> n_splits > nrows],
                        Folds, 1, failAt))

\* mutant: each model's prediction replaces the running sum
predict_avg_overwrites(rows) ==
    LET Sum(j) == IF models = <<>> THEN FZero ELSE Predict(models[Len(models)], rows)[j]
    IN  IF \E i \in 1..Len(models) : models[i] = <<>>
        THEN [raised |-> TRUE, value |-> <<>>]
        ELSE [raised |-> FALSE, value |-> [j \in 1..rows |-> FDivInt(Sum(j), n_splits)]]

\* mutant: the sum is divided by the number of retained models
predict_avg_by_ensemble_size(rows) ==
    LET Sum(j) == FSum([i \in 1..Len(models) |-> Predict(models[i], rows)[j]])
    IN  IF \E i \in 1..Len(models) : models[i] = <<>>
        THEN [raised |-> TRUE, value |-> <<>>]
        ELSE [raised |-> FALSE,
              value |-> [j \in 1..rows |-> IF models = <<>> THEN FZero
                                           ELSE FDivInt(Sum(j), Len(models))]]

\* predict_avg(X_test) for an X_test of the given number of rows
predict_avg(rows) ==
    LET Sum(j) == FSum([i \in 1..Len(models) |-> Predict(models[i], rows)[j]])
    IN  IF \E i \in 1..Len(models) : models[i] = <<>>
        THEN [raised |-> TRUE, value |-> <<>>]
        ELSE [raised |-> FALSE, value |-> [j \in 1..rows |-> FDivInt(Sum(j), n_splits)]]

Idle == [op |-> "new", raised |-> FALSE, failAt |-> NoFailure, before |-> <<>>,
         folds |-> <<>>, fold_scores |-> <<>>, value |-> <<>>]

InitData ==
    \/ /\ nrows \in 2..MaxRows
       /\ kind = "fit"
       /\ cval = FZero
       /\ \E p \in Perms(nrows) :
             shuffled = [s \in Seeds |-> IF s = DefaultSeed THEN p ELSE Reverse(p)]
    \/ /\ nrows = MaxRows
       /\ kind = "const"
       /\ cval \in {FromRatio(k, 10) : k \in 1..MaxConst} \cup {FromInt(MaxConst)}
       /\ shuffled = [s \in Seeds |-> IF s = DefaultSeed THEN Reverse(RangeIndex(nrows))
                                      ELSE RangeIndex(nrows)]

InitValidator ==
    /\ InitData
    /\ n_splits \in 2..MaxSplits
    /\ seed \in Seeds
    /\ models = <<>>
    /\ rng = [seed |-> 0, pos |-> 0]
    /\ completed = 0 /\ aborted = 0 /\ ncalls = 0
    /\ hist = <<>>
    /\ last = Idle
    /\ NoFinalScore /\ NoSlicing /\ NoSubmission

\* KFoldValidator(model, n_splits = k, seed = s, ...): a second validator
Construct(k, s) ==
    /\ n_splits' = k
    /\ seed' = s
    /\ models' = <<>>
    /\ completed' = 0 /\ aborted' = 0
    /\ last' = Idle
    /\ UNCHANGED <<rng, nrows, shuffled, kind, cval, ncalls, hist>>
    /\ UNCHANGED <<fsvars, slvars, gsvars>>

\* what a validate call that came to r leaves behind
Validated(r, failAt) ==
    /\ models' = r.models
    /\ rng' = r.rng
    /\ completed' = IF r.raised THEN completed ELSE completed + 1
    /\ aborted' = IF r.raised THEN aborted + 1 ELSE aborted
    /\ hist' = IF r.raised THEN hist
               ELSE Append(hist, [seed |-> seed, n_splits |-> n_splits,
                                  first |-> models = <<>>,
                                  folds |-> r.folds, means |-> r.means])
    /\ last' = [op |-> "validate", raised |-> r.raised, failAt |-> failAt,
                before |-> models, folds |-> r.folds,
                fold_scores |-> r.fold_scores, value |-> r.means]

\* a call in fold failAt[1] can only raise when that fold is run
Validate(failAt) ==
    /\ ncalls < MaxCalls
    /\ failAt \in {NoFailure} \cup ((1..Len(Folds)) \X Stages)
    /\ Validated(validate(failAt), failAt)
    /\ ncalls' = ncalls + 1
    /\ UNCHANGED <<n_splits, seed, nrows, shuffled, kind, cval>>
    /\ UNCHANGED <<fsvars, slvars, gsvars>>

PredictAvg(rows) ==
    /\ LET r == predict_avg(rows)
       IN  last' = [op |-> "predict_avg", raised |-> r.raised, failAt |-> NoFailure,
                    before |-> models, folds |-> <<>>, fold_scores |-> <<>>,
                    value |-> r.value]
    /\ rng' = _seed_everything(seed)
    /\ UNCHANGED <<n_splits, seed, models, nrows, shuffled, kind, cval,
                   completed, aborted, ncalls, hist>>
    /\ UNCHANGED <<fsvars, slvars, gsvars>>

NextValidator ==
    \/ \E k \in 2..MaxSplits, s \in Seeds : Construct(k, s)
    \/ \E failAt \in {NoFailure} \cup ((1..MaxSplits) \X Stages) : Validate(failAt)
    \/ \E rows \in 1..MaxTestRows : PredictAvg(rows)

Spec == InitValidator /\ [][NextValidator]_vars

\* a validator that is built and never called
NoValidator ==
    /\ n_splits = 2 /\ seed = DefaultSeed /\ models = <<>>
    /\ rng = [seed |-> 0, pos |-> 0]
    /\ nrows = 2 /\ shuffled = [s \in Seeds |-> RangeIndex(2)]
    /\ kind = "const" /\ cval = FZero
    /\ completed = 0 /\ aborted = 0 /\ ncalls = 0
    /\ hist = <<>> /\ last = Idle

Returned(op) == last.op = op /\ ~last.raised

Rows == 0..(nrows - 1)

\* C1: a validate call that returns has collected n_splits score pairs, every
\* row index is in exactly one fold's test set, and each fold's training set
\* is the complement of its test set.
C1_FoldsPartitionRows ==
    Returned("validate") =>
        /\ Len(last.fold_scores) = n_splits
        /\ Len(last.folds) = n_splits
        /\ \A i \in Rows :
              Cardinality({f \in 1..n_splits :
                  \E k \in 1..Len(last.folds[f].test) : last.folds[f].test[k] = i}) = 1
        /\ \A f \in 1..n_splits :
              /\ Range(last.folds[f].train) = Rows \ Range(last.folds[f].test)
              /\ Len(last.folds[f].train) + Len(last.folds[f].test) = nrows

C1_Witness == Returned("validate") /\ nrows % n_splits # 0 /\ kind = "fit"

SameArguments(a, b) == a.seed = b.seed /\ a.n_splits = b.n_splits

\* C7: two validate calls with the same seed, fold count, data and model
\* produce the same folds in the same order and the same pair of mean scores,
\* on one validator or on two.
C7_SameSeedSameResult ==
    \A i, j \in 1..Len(hist) :
        SameArguments(hist[i], hist[j]) =>
            hist[i].folds = hist[j].folds /\ hist[i].means = hist[j].means

C7_Witness ==
    /\ Len(hist) = 2 /\ SameArguments(hist[1], hist[2])
    /\ ~hist[2].first /\ kind = "fit"

C7_WitnessTwoValidators ==
    /\ Len(hist) = 2 /\ SameArguments(hist[1], hist[2])
    /\ hist[1].first /\ hist[2].first /\ kind = "fit"

\* the retained models all predict the value c
AllPredict(c) == \A i \in 1..Len(models) : models[i].out = c

\* C2 as stated: with exactly n_splits retained models that all predict the
\* constant c, predict_avg returns c.
C2_AveragingIdentity ==
    (Returned("predict_avg") /\ Len(models) = n_splits /\ AllPredict(models[1].out)) =>
        \A j \in 1..Len(last.value) : last.value[j] = models[1].out

\* C2 amended: with exactly n_splits retained models that all predict c,
\* predict_avg returns c up to binary64 rounding: every element is at most
\* n_splits representable values away from c, and is c itself when c is an
\* integer.
C2_AveragingIdentityRounded ==
    (Returned("predict_avg") /\ Len(models) = n_splits /\ AllPredict(models[1].out)) =>
        \A j \in 1..Len(last.value) :
            /\ last.value[j] \in Near(models[1].out, n_splits)
            /\ IsIntegral(models[1].out) => last.value[j] = models[1].out

C2_Witness ==
    /\ Returned("predict_avg") /\ Len(models) = n_splits /\ kind = "const"
    /\ ~IsIntegral(cval) /\ Len(last.value) = MaxTestRows /\ last.value[1] # cval

\* C3: predict_avg on a validator whose ensemble is empty raises and returns
\* no numeric result.
C3_EmptyEnsembleRaises ==
    (last.op = "predict_avg" /\ last.before = <<>>) => last.raised /\ last.value = <<>>

\* m copies of c summed left to right
RECURSIVE Repeated(_, _)
Repeated(c, m) == IF m = 0 THEN <<>> ELSE Append(Repeated(c, m - 1), c)

FoldOrder ==
    \A i \in 1..Len(models) : models[i].train = Take(XData.values, Folds[((i - 1) % n_splits) + 1].train)

FailedFold == last.failAt[1]

AfterFit == last.failAt[2] \in {"predict", "score0", "score1"}

\* C10: when fold k of validate raises, validate raises, returns no means and
\* keeps the models appended so far: k - 1 new models when the model's
\* construction or fit raised, k when predict or a scoring function raised;
\* k - 1 folds were scored; a later predict_avg returns the sum of the retained
\* models' predictions divided by n_splits.
C10_PartialEnsembleKept ==
    /\ (last.op = "validate" /\ last.failAt # NoFailure) =>
          /\ last.raised /\ last.value = <<>>
          /\ Len(last.fold_scores) = FailedFold - 1
          /\ Len(models) = Len(last.before) + (IF AfterFit THEN FailedFold ELSE FailedFold - 1)
          /\ SubSeq(models, 1, Len(last.before)) = last.before
    /\ (last.op = "predict_avg" /\ aborted > 0) =>
          /\ ~last.raised
          /\ models = last.before
          /\ \A j \in 1..Len(last.value) :
                last.value[j] = FDivInt(FSum([i \in 1..Len(models) |-> models[i].out]), n_splits)

C10_Witness ==
    /\ last.op = "validate" /\ last.raised /\ FailedFold = 2 /\ AfterFit
    /\ Len(models) > Len(last.before) + Len(last.fold_scores)

C10_WitnessPredictAvg ==
    /\ last.op = "predict_avg" /\ aborted = 1 /\ completed = 0
    /\ Len(models) % n_splits # 0 /\ Len(last.value) > 0

\* ------------------------------------------------------------------------
\* KFoldValidator.calculate_final_score
\* ------------------------------------------------------------------------

\* scores are drawn from k and k/10 for |k| <= MaxScoreNum
MaxScoreNum == 3

ScoreVals == {FromRatio(k, b) : k \in (-MaxScoreNum)..MaxScoreNum, b \in {1, 10}}

\* mutant: the weighted sum is divided by the plain row counts
final_score_plain_row_counts(scores_w1, scores_w5, scores_w10) ==
    LET weight_w1  == 23189 * 1
        weight_w5  == 1608 * 5
        weight_w10 == 1342 * 5
    IN  FDivInt(FAdd(FAdd(FMulInt(scores_w1, weight_w1), FMulInt(scores_w5, weight_w5)),
                     FMulInt(scores_w10, weight_w10)),
                23189 + 1608 + 1342)

calculate_final_score(scores_w1, scores_w5, scores_w10) ==
    LET weight_w1  == 23189 * 1
        weight_w5  == 1608 * 5
        weight_w10 == 1342 * 5
    IN  FDivInt(FAdd(FAdd(FMulInt(scores_w1, weight_w1), FMulInt(scores_w5, weight_w5)),
                     FMulInt(scores_w10, weight_w10)),
                weight_w1 + weight_w5 + weight_w10)

InitFinalScore ==
    /\ fs_in \in ScoreVals \X ScoreVals \X ScoreVals
    /\ fs_out = <<>>
    /\ NoValidator /\ NoSlicing /\ NoSubmission

CalculateFinalScore ==
    /\ fs_out = <<>>
    /\ fs_out' = <<calculate_final_score(fs_in[1], fs_in[2], fs_in[3])>>
    /\ UNCHANGED <<fs_in, kfvars, slvars, gsvars>>

NextFinalScore == CalculateFinalScore

SpecFinalScore == InitFinalScore /\ [][NextFinalScore]_vars

EqualScores == fs_out # <<>> /\ fs_in[1] = fs_in[2] /\ fs_in[2] = fs_in[3]

\* C4 as stated: for every scalar s, calculate_final_score(s, s, s) returns s.
C4_ReturnsInput == EqualScores => fs_out[1] = fs_in[1]

\* C4 amended: calculate_final_score(s, s, s) is s up to binary64 rounding: it
\* is at most 4 representable values away from s, and it is s itself when s is
\* an integer (the three products and the two sums are then exact).
C4_ReturnsInputRounded ==
    EqualScores => /\ fs_out[1] \in Near(fs_in[1], 4)
                   /\ IsIntegral(fs_in[1]) => fs_out[1] = fs_in[1]

C4_Witness == EqualScores /\ ~IsIntegral(fs_in[1]) /\ fs_out[1] # fs_in[1]

C4_WitnessExact == EqualScores /\ ~IsIntegral(fs_in[1]) /\ fs_out[1] = fs_in[1]
\* ------------------------------------------------------------------------
\* KFoldValidator.slicing as a stand-alone call
\* ------------------------------------------------------------------------

\* rows of the data handed to slicing: 1..MaxSliceRows
MaxSliceRows == 3
\* positions asked for: 0..MaxIndices
MaxIndices == 2

\* row labels: some numbered as positions are, one not
Labels == {0, 1, MaxSliceRows + 2}

SeqsUpTo(S, n) == UNION {[1..k -> S] : k \in 0..n}

\* row i of the data holds the value 10 + i
SliceValues(n) == [i \in 1..n |-> 10 + i]

InitSlicing ==
    /\ \E n \in 1..MaxSliceRows :
          \E indices \in SeqsUpTo((-n)..(n - 1), MaxIndices) :
             \/ \E index \in [1..n -> Labels], reset_index \in BOOLEAN :
                   sl_in = [data |-> Table(index, SliceValues(n)),
                            indices |-> indices, reset_index |-> reset_index]
             \/ sl_in = [data |-> Array(SliceValues(n)),
                         indices |-> indices, reset_index |-> FALSE]
    /\ sl_out = NoCall
    /\ NoValidator /\ NoFinalScore /\ NoSubmission

Slicing ==
    /\ sl_out = NoCall
    /\ sl_out' = <<slicing(sl_in.data, sl_in.indices, sl_in.reset_index)>>
    /\ UNCHANGED <<sl_in, kfvars, fsvars, gsvars>>

NextSlicing == Slicing

SpecSlicing == InitSlicing /\ [][NextSlicing]_vars

\* the row a Python position names: negative positions count from the end
At(rows, p) == IF p >= 0 THEN rows[p + 1] ELSE rows[Len(rows) + p + 1]

\* C5: on a DataFrame or Series, slicing returns the rows at the given
\* positions in the given order; with reset_index the row labels are
\* 0..len(indices)-1, without it every row keeps its label.
C5_SlicingKeepsOrder ==
    (sl_out # NoCall /\ sl_in.data.table) =>
        LET out == sl_out[1]
            n   == Len(sl_in.indices)
        IN  /\ out.table
            /\ Len(out.values) = n /\ Len(out.index) = n
            /\ \A k \in 1..n : out.values[k] = At(sl_in.data.values, sl_in.indices[k])
            /\ sl_in.reset_index => \A k \in 1..n : out.index[k] = k - 1
            /\ ~sl_in.reset_index =>
                  \A k \in 1..n : out.index[k] = At(sl_in.data.index, sl_in.indices[k])

C5_Witness ==
    /\ sl_out # NoCall /\ sl_in.data.table /\ ~sl_in.reset_index
    /\ Len(sl_in.indices) = MaxIndices
    /\ sl_in.indices[1] > sl_in.indices[2] /\ sl_in.indices[2] < 0
    /\ sl_out[1].index # RangeIndex(MaxIndices)

\* ------------------------------------------------------------------------
\* generate_submission
\* ------------------------------------------------------------------------

\* rows of data_pivot_load.csv
MaxCsvRows == 2
\* the timestamps
Times == {1, 2}

\* the base stations
Stations == {1, 2}

\* the Energy of a row that is to be predicted
HeldOut == -1

\* the Energy column: a held-out row, or a measured one
EnergyValues == {HeldOut, 50}

\* the prediction arrays: entry i of preds_iter_w1/5/10 is 100+i, 200+i, 300+i
PredsFor(w, n) == [i \in 1..n |-> 100 * w + i]

\* the ID column: str(Time) + '_' + BS
MakeID(row) == <<row.Time, row.BS>>

\* r comes before q in sort_values(['BS', 'Time'])
KeyLess(r, q) == r.BS < q.BS \/ (r.BS = q.BS /\ r.Time < q.Time)

RECURSIVE InsertSorted(_, _)
InsertSorted(sorted, r) ==
    IF sorted = <<>> THEN <<r>>
    ELSE IF KeyLess(r, sorted[Len(sorted)])
    THEN Append(InsertSorted(SubSeq(sorted, 1, Len(sorted) - 1), r), sorted[Len(sorted)])
    ELSE Append(sorted, r)

RECURSIVE SortValues(_)
\* a stable sort by (BS, Time)
SortValues(rows) ==
    IF rows = <<>> THEN <<>>
    ELSE InsertSorted(SortValues(SubSeq(rows, 1, Len(rows) - 1)), rows[Len(rows)])

\* mutant: a row that already has a prediction keeps it
AssignMasked_first_write_wins(submission_data, mask, preds_iter) ==
    LET preds == [i \in 1..Len(submission_data) |->
                     [label |-> submission_data[i].label, Energy_pred |-> preds_iter[i]]]
        Pred(label) == (CHOOSE i \in 1..Len(preds) : preds[i].label = label)
    IN  [i \in 1..Len(submission_data) |->
            IF mask[i] /\ submission_data[i].Energy = HeldOut
            THEN [submission_data[i] EXCEPT
                     !.Energy = preds[Pred(submission_data[i].label)].Energy_pred]
            ELSE submission_data[i]]

\* mutant: the masked rows take the first predictions of the array
AssignMasked_from_array_start(submission_data, mask, preds_iter) ==
    LET Nth(i) == Cardinality({j \in 1..i : mask[j]})
    IN  [i \in 1..Len(submission_data) |->
            IF mask[i]
            THEN [submission_data[i] EXCEPT !.Energy = preds_iter[Nth(i)]]
            ELSE submission_data[i]]

\* submission_data.loc[mask, 'Energy'] = preds.loc[mask, 'Energy_pred'] with
\* preds = DataFrame(preds_iter, index = submission_data.index): the rows the
\* mask selects take the prediction that carries their row label
AssignMasked(submission_data, mask, preds_iter) ==
    LET preds == [i \in 1..Len(submission_data) |->
                     [label |-> submission_data[i].label, Energy_pred |-> preds_iter[i]]]
        Pred(label) == (CHOOSE i \in 1..Len(preds) : preds[i].label = label)
    IN  [i \in 1..Len(submission_data) |->
            IF mask[i]
            THEN [submission_data[i] EXCEPT
                     !.Energy = preds[Pred(submission_data[i].label)].Energy_pred]
            ELSE submission_data[i]]

IsHeldOut(row) == row.Energy = HeldOut

\* read_csv: the rows of the file, labelled 0, 1, ... in file order
ReadCsv(lines) == [i \in 1..Len(lines) |->
                      [label |-> i - 1, Time |-> lines[i].Time, BS |-> lines[i].BS,
                       Energy |-> lines[i].Energy]]

generate_submission(in) ==
    LET data            == ReadCsv(in.csv)
        sorted_data     == SortValues(data)
        test_data       == SelectSeq(sorted_data, IsHeldOut)
        n               == Len(test_data)
        after_w1        == AssignMasked(test_data, in.mask_w1, PredsFor(1, n))
        after_w5        == AssignMasked(after_w1, in.mask_w5, PredsFor(5, n))
        submission_data == AssignMasked(after_w5, in.mask_w10, PredsFor(10, n))
        Required(row)   == MakeID(row) \in in.template
        kept            == SelectSeq(submission_data, Required)
    IN  [submission_data |-> submission_data,
         final_submission |-> [i \in 1..Len(kept) |->
                                  [ID |-> MakeID(kept[i]), Energy |-> kept[i].Energy]]]

CsvLines == [Time : Times, BS : Stations, Energy : EnergyValues]

\* sample_submission.csv lists some of these IDs; the last is of no row
Templates == SUBSET {<<1, 1>>, <<1, 2>>, <<3, 1>>}

InitSubmission ==
    /\ \E csv \in [1..MaxCsvRows -> CsvLines] :
          LET n == Cardinality({i \in 1..MaxCsvRows : csv[i].Energy = HeldOut})
          IN  \E m1, m5, m10 \in [1..n -> BOOLEAN], template \in Templates :
                 gs_in = [csv |-> csv, mask_w1 |-> m1, mask_w5 |-> m5, mask_w10 |-> m10,
                          template |-> template]
    /\ gs_out = NoCall
    /\ NoValidator /\ NoFinalScore /\ NoSlicing

GenerateSubmission ==
    /\ gs_out = NoCall
    /\ gs_out' = <<generate_submission(gs_in)>>
    /\ UNCHANGED <<gs_in, kfvars, fsvars, slvars>>

NextSubmission == GenerateSubmission

SpecSubmission == InitSubmission /\ [][NextSubmission]_vars

\* the held-out rows of the file, by row label
HeldOutLabels == {i \in 0..(Len(gs_in.csv) - 1) : gs_in.csv[i + 1].Energy = HeldOut}

CsvRow(label) == gs_in.csv[label + 1]

\* the place of a held-out row among the held-out rows ordered by (BS, Time),
\* rows of equal key in file order: the entry of the masks and of the
\* prediction arrays that belongs to it
Place(label) ==
    1 + Cardinality({l \in HeldOutLabels :
            \/ KeyLess(CsvRow(l), CsvRow(label))
            \/ (~KeyLess(CsvRow(label), CsvRow(l)) /\ l < label)})

Selects(w, label) ==
    CASE w = 1  -> gs_in.mask_w1[Place(label)]
      [] w = 5  -> gs_in.mask_w5[Place(label)]
      [] w = 10 -> gs_in.mask_w10[Place(label)]

Masks == {1, 5, 10}

MasksPartition == \A l \in HeldOutLabels : Cardinality({w \in Masks : Selects(w, l)}) = 1

\* the held-out rows the template asks for, in the order of their places
RequiredLabels == {l \in HeldOutLabels : MakeID(CsvRow(l)) \in gs_in.template}

LabelAt(k) == CHOOSE l \in RequiredLabels :
                 Cardinality({q \in RequiredLabels : Place(q) < Place(l)}) = k - 1

\* C6: with masks that cover every held-out row exactly once, the returned IDs
\* are the held-out rows' IDs that the template lists, every returned row
\* carries the prediction of the mask covering it, taken at the row's place,
\* and no returned row still has Energy -1.
C6_PartitionedMasksFillEveryRow ==
    (gs_out # NoCall /\ MasksPartition) =>
        LET final == gs_out[1].final_submission
        IN  /\ {final[k].ID : k \in 1..Len(final)}
                  = {MakeID(CsvRow(l)) : l \in HeldOutLabels} \cap gs_in.template
            /\ Len(final) = Cardinality(RequiredLabels)
            /\ \A k \in 1..Len(final) :
                  LET l == LabelAt(k)
                      w == CHOOSE m \in Masks : Selects(m, l)
                  IN  /\ final[k].ID = MakeID(CsvRow(l))
                      /\ final[k].Energy = PredsFor(w, Cardinality(HeldOutLabels))[Place(l)]
                      /\ final[k].Energy # HeldOut

C6_Witness ==
    /\ gs_out # NoCall /\ MasksPartition
    /\ Cardinality(HeldOutLabels) = MaxCsvRows
    /\ Len(gs_out[1].final_submission) = MaxCsvRows
    /\ Place(0) # 1
    /\ \E l \in HeldOutLabels : Selects(5, l)
    /\ \E l \in HeldOutLabels : Selects(10, l)

\* C8: the masks are written in the order w1, w5, w10: every held-out row ends
\* with the prediction of the last mask in that order that selects it, and a
\* row no mask selects keeps Energy -1.
C8_LaterMaskWins ==
    gs_out # NoCall =>
        LET sub == gs_out[1].submission_data
            n   == Cardinality(HeldOutLabels)
        IN  /\ Len(sub) = n
            /\ \A l \in HeldOutLabels :
                  /\ sub[Place(l)].label = l
                  /\ sub[Place(l)].Energy =
                        IF Selects(10, l) THEN PredsFor(10, n)[Place(l)]
                        ELSE IF Selects(5, l) THEN PredsFor(5, n)[Place(l)]
                        ELSE IF Selects(1, l) THEN PredsFor(1, n)[Place(l)]
                        ELSE HeldOut

C8_Witness ==
    /\ gs_out # NoCall
    /\ \E l \in HeldOutLabels : Selects(1, l) /\ Selects(5, l) /\ Selects(10, l)
    /\ \E l \in HeldOutLabels : ~Selects(1, l) /\ ~Selects(5, l) /\ ~Selects(10, l)
====
